---------------------------- MODULE Spec2Model ----------------------------
(***************************************************************************)
(* A model of src/web_crawler.py: the WebCrawler class (frontier queue,    *)
(* visited_urls, image_hashes, the per-page pool of download_image         *)
(* workers) and main().  The web, the clock and the file system are the    *)
(* environment: a page GET, an image GET and a file write each succeed or  *)
(* fail nondeterministically; what a page contains is fixed by the site    *)
(* chosen in Init.                                                         *)
(***************************************************************************)
EXTENDS Integers, Sequences, FiniteSets, TLC

VARIABLES
    site,          \* which of the Sites the run crawls
    max_pages,     \* self.max_pages
    max_depth,     \* self.max_depth
    pc,            \* position of the main thread
    queue,         \* crawl(): queue, a sequence of [url, depth]
    cur,           \* crawl(): url, depth of the current iteration
    visited_urls,  \* self.visited_urls
    image_hashes,  \* self.image_hashes
    stats,         \* crawl(): stats
    workers,       \* extract_images(): futures, one download_image call each
    images,        \* files under self.image_dir: [name, data]
    texts,         \* names of the files under self.text_dir
    now,           \* int(time.time())
    ticks,         \* seconds the clock advanced on its own
    gets,          \* history: the page GETs issued: [url, depth, pauses]
    failed,        \* history: URLs whose page GET failed
    persisted,     \* history: image writes that succeeded
    faults,        \* history: some GET or write of the run failed
    appended,      \* history: the entries the last page appended to queue
    succeeded,     \* history: URLs whose page GET returned a success status
    successes,     \* history: the download_image calls that returned True
    summary,       \* main() has logged the statistics
    interrupted,   \* KeyboardInterrupt was raised in the main thread
    exit_code      \* exit status of the process, NoExit while it runs

vars == <<site, max_pages, max_depth, pc, queue, cur, visited_urls,
          image_hashes, stats, workers, images, texts, now, ticks, gets,
          failed, persisted, faults, appended, succeeded, successes,
          summary, interrupted, exit_code>>

-----------------------------------------------------------------------------
(* Bounds of the model. *)

MaxPagesArg == 5
MaxDepthArg == 2
MaxTicks == 1

-----------------------------------------------------------------------------
(* URLs as urlparse splits them; a reference with scheme "" is relative. *)

Url(s, n, p) == [scheme |-> s, netloc |-> n, path |-> p]

NoSrc == Url("", "", "")

base_url == Url("http", "a.com", "/")

P1 == Url("http", "a.com", "/p1")
P2 == Url("http", "a.com", "/p2")
P3 == Url("http", "a.com", "/p3")
Ext == Url("http", "b.com", "/ext")

\* urljoin(base, ref) for the references of the sites: an absolute URL, a
\* network-path reference (//host/path) or an absolute-path reference.
urljoin(base, ref) ==
    IF ref.scheme # "" THEN ref
    ELSE IF ref.netloc # "" THEN Url(base.scheme, ref.netloc, ref.path)
    ELSE Url(base.scheme, base.netloc, ref.path)

EmptyDoc == [links |-> <<>>, imgs |-> <<>>]

\* The documents the sites serve: the href of every <a href> and the src of
\* every <img>, in document order.
Sites ==
    << \* seed with a cross-origin link and three refs to one image body
       [ pages |->
           (base_url :> [links |-> <<P1, Ext>>,
                         imgs  |-> <<Url("", "", "/i1.png"),
                                     Url("", "", "/i1.png"),
                                     Url("", "", "/i2.png")>>]) ],
       \* cycles, duplicate links, cross-origin and non-HTTP links
       [ pages |->
           (base_url :> [links |-> <<Url("", "", "/p1"), Url("", "", "/p1"),
                                     Url("", "", "/p2"),
                                     Url("", "b.com", "/ext"),
                                     Url("mailto", "", "x@a.com")>>,
                         imgs  |-> <<NoSrc, Url("", "", "/i1.png")>>]
            @@ P1 :> [links |-> <<Url("", "", "/"), Url("", "", "/p2"), Ext>>,
                      imgs  |-> <<Url("", "", "/i2.png"),
                                  Url("", "", "/doc")>>]
            @@ P2 :> [links |-> <<Url("", "", "/p1"), Url("", "", "/p3")>>,
                      imgs  |-> <<Url("", "", "/i3.gif"),
                                  Url("", "", "/i1.png")>>]
            @@ P3 :> [links |-> <<Url("", "", "/")>>, imgs |-> <<>>]
            @@ Ext :> [links |-> <<Url("", "", "/more")>>, imgs |-> <<>>]) ],
       \* a page with more images than the pool has threads
       [ pages |->
           (base_url :> [links |-> <<>>,
                         imgs  |-> <<Url("", "", "/doc"), Url("", "", "/doc"),
                                     Url("", "", "/doc"), Url("", "", "/doc"),
                                     Url("", "", "/doc"),
                                     Url("", "", "/i1.png")>>]) ] >>

\* BeautifulSoup(response.text) of a successful GET of url
Doc(url) ==
    IF url \in DOMAIN Sites[site].pages THEN Sites[site].pages[url]
    ELSE EmptyDoc

\* response.headers['Content-Type'] and response.content of an image GET
ImageResponse(img_url) ==
    CASE img_url.path = "/i1.png" -> [type |-> "image", body |-> "B1"]
      [] img_url.path = "/i2.png" -> [type |-> "image", body |-> "B1"]
      [] img_url.path = "/i3.gif" -> [type |-> "image", body |-> "B2"]
      [] OTHER -> [type |-> "text", body |-> "B3"]

\* os.path.splitext(path)[1]
splitext(path) ==
    CASE path \in {"/i1.png", "/i2.png"} -> ".png"
      [] path = "/i3.gif" -> ".gif"
      [] OTHER -> ""

get_url_hash(url) == <<"md5", url>>

get_image_hash(image_data) == <<"md5", image_data>>


-----------------------------------------------------------------------------
(* Helpers over sequences. *)

Range(s) == {s[i] : i \in DOMAIN s}

Map(Op(_), s) == [i \in DOMAIN s |-> Op(s[i])]

\* CountTrue as a flag that is set, where the count should be incremented
CountAny(ws) == IF \E i \in DOMAIN ws : ws[i].result THEN 1 ELSE 0

\* the futures whose result is True: downloaded_count of extract_images
CountTrue(ws) == Cardinality({i \in DOMAIN ws : ws[i].result})

-----------------------------------------------------------------------------
(* WebCrawler *)

max_workers == 5

NoTarget == [url |-> NoSrc, depth |-> 0]

NoExit == -1

ZeroStats ==
    [pages_crawled |-> 0, texts_saved |-> 0, images_downloaded |-> 0,
     errors |-> 0]

Init ==
    /\ site \in DOMAIN Sites
    /\ max_pages \in (-1)..MaxPagesArg
    /\ max_depth \in (-1)..MaxDepthArg
    /\ pc = "init"
    /\ queue = <<>>
    /\ cur = NoTarget
    /\ visited_urls = {}
    /\ image_hashes = {}
    /\ stats = ZeroStats
    /\ workers = <<>>
    /\ images = {}
    /\ texts = {}
    /\ now = 0
    /\ ticks = 0
    /\ gets = <<>>
    /\ failed = {}
    /\ persisted = {}
    /\ faults = FALSE
    /\ appended = <<>>
    /\ succeeded = {}
    /\ successes = 0
    /\ summary = FALSE
    /\ interrupted = FALSE
    /\ exit_code = NoExit

\* __init__ and setup_storage, then the first lines of crawl(); os.makedirs
\* may raise, and the exception leaves main()
SetupStorage ==
    /\ pc = "init"
    /\ pc' = "loop"
    /\ queue' = <<[url |-> base_url, depth |-> 0]>>
    /\ UNCHANGED <<appended, site, max_pages, max_depth, cur, visited_urls,
                   image_hashes, stats, workers, images, texts, now, ticks,
                   gets, failed, persisted, faults, exit_code, succeeded,
                   successes, summary, interrupted>>

SetupStorageFails ==
    /\ pc = "init"
    /\ pc' = "raised"
    /\ faults' = TRUE
    /\ UNCHANGED <<appended, site, max_pages, max_depth, queue, cur,
                   visited_urls, image_hashes, stats, workers, images, texts,
                   now, ticks, gets, failed, persisted, exit_code, succeeded,
                   successes, summary, interrupted>>

\* LoopCondition with <= for <
LoopConditionInclusive ==
    queue # <<>> /\ Cardinality(visited_urls) <= max_pages

\* the condition of the while loop
LoopCondition == queue # <<>> /\ Cardinality(visited_urls) < max_pages

\* the first line of download_page: no request is made
Refused(url, depth) ==
    \/ url \in visited_urls
    \/ Cardinality(visited_urls) >= max_pages
    \/ depth > max_depth

\* the loop condition is false: crawl() returns stats
LoopExit ==
    /\ pc = "loop"
    /\ ~LoopCondition
    /\ pc' = "returned"
    /\ UNCHANGED <<appended, site, max_pages, max_depth, queue, cur,
                   visited_urls, image_hashes, stats, workers, images, texts,
                   now, ticks, gets, failed, persisted, faults, exit_code,
                   succeeded, successes, summary, interrupted>>

\* queue.pop(0) of a URL in visited_urls: continue
DequeueVisited ==
    /\ pc = "loop"
    /\ LoopCondition
    /\ Head(queue).url \in visited_urls
    /\ queue' = Tail(queue)
    /\ UNCHANGED <<appended, site, max_pages, max_depth, pc, cur,
                   visited_urls, image_hashes, stats, workers, images, texts,
                   now, ticks, gets, failed, persisted, faults, exit_code,
                   succeeded, successes, summary, interrupted>>

\* queue.pop(0), download_page returns (None, None) at once: errors += 1
DequeueRefused ==
    /\ pc = "loop"
    /\ LoopCondition
    /\ Head(queue).url \notin visited_urls
    /\ Refused(Head(queue).url, Head(queue).depth)
    /\ queue' = Tail(queue)
    /\ stats' = [stats EXCEPT !.errors = @ + 1]
    /\ UNCHANGED <<appended, site, max_pages, max_depth, pc, cur,
                   visited_urls, image_hashes, workers, images, texts, now,
                   ticks, gets, failed, persisted, faults, exit_code,
                   succeeded, successes, summary, interrupted>>

\* the time.sleep(1) calls made so far
Pauses == now - ticks

\* queue.pop(0), download_page issues session.get(url)
DequeueFetch ==
    /\ pc = "loop"
    /\ LoopCondition
    /\ Head(queue).url \notin visited_urls
    /\ ~Refused(Head(queue).url, Head(queue).depth)
    /\ queue' = Tail(queue)
    /\ cur' = Head(queue)
    /\ gets' = Append(gets, [url |-> Head(queue).url,
                             depth |-> Head(queue).depth,
                             pauses |-> Pauses])
    /\ pc' = "get"
    /\ UNCHANGED <<appended, site, max_pages, max_depth, visited_urls,
                   image_hashes, stats, workers, images, texts, now, ticks,
                   failed, persisted, faults, exit_code, succeeded, successes,
                   summary, interrupted>>

\* PageFetchFails with the try of download_page missing: the exception
\* leaves crawl()
PageFetchFailsUncaught ==
    /\ pc = "get"
    /\ failed' = failed \cup {cur.url}
    /\ faults' = TRUE
    /\ pc' = "raised"
    /\ UNCHANGED <<appended, site, max_pages, max_depth, queue, cur, stats,
                   visited_urls, image_hashes, workers, images, texts, now,
                   ticks, gets, persisted, exit_code, succeeded, successes,
                   summary, interrupted>>

\* session.get or raise_for_status raises: download_page returns (None, None)
PageFetchFails ==
    /\ pc = "get"
    /\ failed' = failed \cup {cur.url}
    /\ faults' = TRUE
    /\ stats' = [stats EXCEPT !.errors = @ + 1]
    /\ cur' = NoTarget
    /\ pc' = "loop"
    /\ UNCHANGED <<appended, site, max_pages, max_depth, queue, visited_urls,
                   image_hashes, workers, images, texts, now, ticks, gets,
                   persisted, exit_code, succeeded, successes, summary,
                   interrupted>>

\* the GET succeeds and the URL is added to visited_urls, then BeautifulSoup
\* raises: download_page returns (None, None)
PageParseFails ==
    /\ pc = "get"
    /\ visited_urls' = visited_urls \cup {cur.url}
    /\ succeeded' = succeeded \cup {cur.url}
    /\ faults' = TRUE
    /\ stats' = [stats EXCEPT !.errors = @ + 1]
    /\ cur' = NoTarget
    /\ pc' = "loop"
    /\ UNCHANGED <<appended, site, max_pages, max_depth, queue, image_hashes,
                   workers, images, texts, now, ticks, gets, failed,
                   persisted, exit_code, successes, summary, interrupted>>

\* download_page returns the soup: pages_crawled += 1
PageFetched ==
    /\ pc = "get"
    /\ visited_urls' = visited_urls \cup {cur.url}
    /\ succeeded' = succeeded \cup {cur.url}
    /\ stats' = [stats EXCEPT !.pages_crawled = @ + 1]
    /\ pc' = "text"
    /\ UNCHANGED <<appended, site, max_pages, max_depth, queue, cur,
                   image_hashes, workers, images, texts, now, ticks, gets,
                   failed, persisted, faults, exit_code, successes, summary,
                   interrupted>>


\* the futures extract_images submits: one download_image(img_url) for every
\* <img> that has a src
Submitted(soup, page_url) ==
    Map(LAMBDA src : [url |-> urljoin(page_url, src), pc |-> "queued",
                      result |-> FALSE],
        SelectSeq(soup.imgs, LAMBDA src : src # NoSrc))

\* ExtractText with the increment of texts_saved forgotten
ExtractTextUncounted ==
    /\ pc = "text"
    /\ texts' = texts \cup {<<get_url_hash(cur.url), now>>}
    /\ workers' = Submitted(Doc(cur.url), cur.url)
    /\ pc' = "images"
    /\ UNCHANGED <<appended, stats, site, max_pages, max_depth, queue, cur,
                   visited_urls, image_hashes, images, now, ticks, gets,
                   failed, persisted, faults, exit_code, succeeded, successes,
                   summary, interrupted>>

\* extract_text writes the text file; texts_saved += 1; extract_images
\* submits the downloads
ExtractText ==
    /\ pc = "text"
    /\ texts' = texts \cup {<<get_url_hash(cur.url), now>>}
    /\ stats' = [stats EXCEPT !.texts_saved = @ + 1]
    /\ workers' = Submitted(Doc(cur.url), cur.url)
    /\ pc' = "images"
    /\ UNCHANGED <<appended, site, max_pages, max_depth, queue, cur,
                   visited_urls, image_hashes, images, now, ticks, gets,
                   failed, persisted, faults, exit_code, succeeded, successes,
                   summary, interrupted>>

\* open() or write() in extract_text raises: nothing in crawl() catches it
ExtractTextFails ==
    /\ pc = "text"
    /\ faults' = TRUE
    /\ pc' = "raised"
    /\ UNCHANGED <<appended, site, max_pages, max_depth, queue, cur,
                   visited_urls, image_hashes, stats, workers, images, texts,
                   now, ticks, gets, failed, persisted, exit_code, succeeded,
                   successes, summary, interrupted>>

-----------------------------------------------------------------------------
(* download_image, one call per worker of the pool *)

Running == {i \in DOMAIN workers : workers[i].pc \notin {"queued", "done"}}

Finish(i, ok) ==
    workers' = [workers EXCEPT ![i].pc = "done", ![i].result = ok]

WorkerFrame ==
    UNCHANGED <<appended, site, max_pages, max_depth, pc, queue, cur,
                visited_urls, stats, texts, now, ticks, gets, failed,
                exit_code, succeeded, summary, interrupted>>

\* StartImage with no limit on the threads of the pool
StartImageUnbounded ==
    \E i \in DOMAIN workers :
        /\ workers[i].pc = "queued"
        /\ workers' = [workers EXCEPT ![i].pc = "get"]
        /\ UNCHANGED <<image_hashes, images, persisted, faults, successes>>
        /\ WorkerFrame

\* a thread of the pool takes the next submitted call: session.get(img_url)
StartImage ==
    \E i \in DOMAIN workers :
        /\ workers[i].pc = "queued"
        /\ \A j \in 1..(i - 1) : workers[j].pc # "queued"
        /\ Cardinality(Running) < max_workers
        /\ workers' = [workers EXCEPT ![i].pc = "get"]
        /\ UNCHANGED <<image_hashes, images, persisted, faults, successes>>
        /\ WorkerFrame

\* ImageFetchFails counting the failure in stats['errors']
ImageFetchFailsCounted ==
    \E i \in DOMAIN workers :
        /\ workers[i].pc = "get"
        /\ Finish(i, FALSE)
        /\ faults' = TRUE
        /\ stats' = [stats EXCEPT !.errors = @ + 1]
        /\ UNCHANGED <<image_hashes, images, persisted, successes>>
        /\ UNCHANGED <<appended, site, max_pages, max_depth, pc, queue, cur,
                       visited_urls, texts, now, ticks, gets, failed,
                       exit_code, succeeded, summary, interrupted>>

\* session.get or raise_for_status raises: return False
ImageFetchFails ==
    \E i \in DOMAIN workers :
        /\ workers[i].pc = "get"
        /\ Finish(i, FALSE)
        /\ faults' = TRUE
        /\ UNCHANGED <<image_hashes, images, persisted, successes>>
        /\ WorkerFrame

\* Content-Type does not start with image/: return False
ImageNotImage ==
    \E i \in DOMAIN workers :
        /\ workers[i].pc = "get"
        /\ ImageResponse(workers[i].url).type # "image"
        /\ Finish(i, FALSE)
        /\ UNCHANGED <<image_hashes, images, persisted, faults, successes>>
        /\ WorkerFrame

\* the response is an image: img_hash is computed
ImageFetched ==
    \E i \in DOMAIN workers :
        /\ workers[i].pc = "get"
        /\ ImageResponse(workers[i].url).type = "image"
        /\ workers' = [workers EXCEPT ![i].pc = "check"]
        /\ UNCHANGED <<image_hashes, images, persisted, faults, successes>>
        /\ WorkerFrame

img_hash(i) == get_image_hash(ImageResponse(workers[i].url).body)

\* Seen with the membership test lost
SeenNever(h) == FALSE

\* the test img_hash in self.image_hashes
Seen(h) == h \in image_hashes

\* img_hash in self.image_hashes: return False
ImageDuplicate ==
    \E i \in DOMAIN workers :
        /\ workers[i].pc = "check"
        /\ Seen(img_hash(i))
        /\ Finish(i, FALSE)
        /\ UNCHANGED <<image_hashes, images, persisted, faults, successes>>
        /\ WorkerFrame

\* img_hash not in self.image_hashes: go on to add it
ImageNew ==
    \E i \in DOMAIN workers :
        /\ workers[i].pc = "check"
        /\ ~Seen(img_hash(i))
        /\ workers' = [workers EXCEPT ![i].pc = "add"]
        /\ UNCHANGED <<image_hashes, images, persisted, faults, successes>>
        /\ WorkerFrame

\* self.image_hashes.add(img_hash)
ImageAdd ==
    \E i \in DOMAIN workers :
        /\ workers[i].pc = "add"
        /\ image_hashes' = image_hashes \cup {img_hash(i)}
        /\ workers' = [workers EXCEPT ![i].pc = "write"]
        /\ UNCHANGED <<images, persisted, faults, successes>>
        /\ WorkerFrame

\* the extension of the file name
ext(path) ==
    IF splitext(path) = ""
       \/ splitext(path) \notin {".jpg", ".jpeg", ".png", ".gif", ".bmp",
                                 ".webp"}
    THEN ".jpg" ELSE splitext(path)

filename(img_url) == <<get_url_hash(img_url), now, ext(img_url.path)>>

\* open(filepath, 'wb') and write(img_data): return True
ImageWritten ==
    \E i \in DOMAIN workers :
        /\ workers[i].pc = "write"
        /\ LET f == [name |-> filename(workers[i].url),
                     data |-> ImageResponse(workers[i].url).body]
           IN  /\ images' = {g \in images : g.name # f.name} \cup {f}
               /\ persisted' = persisted \cup
                      {[page |-> cur.url, name |-> f.name, data |-> f.data]}
        /\ Finish(i, TRUE)
        /\ successes' = successes + 1
        /\ UNCHANGED <<image_hashes, faults>>
        /\ WorkerFrame

\* open or write raises: return False, img_hash stays in self.image_hashes
ImageWriteFails ==
    \E i \in DOMAIN workers :
        /\ workers[i].pc = "write"
        /\ Finish(i, FALSE)
        /\ faults' = TRUE
        /\ UNCHANGED <<image_hashes, images, persisted, successes>>
        /\ WorkerFrame

\* the clock reaches the next second while images are downloaded
Tick ==
    /\ pc = "images"
    /\ ticks < MaxTicks
    /\ ticks' = ticks + 1
    /\ now' = now + 1
    /\ UNCHANGED <<appended, site, max_pages, max_depth, pc, queue, cur,
                   visited_urls, image_hashes, stats, workers, images, texts,
                   gets, failed, persisted, faults, exit_code, succeeded,
                   successes, summary, interrupted>>

-----------------------------------------------------------------------------
(* crawl(), after the images *)

\* extract_links with the netloc comparison missing
extract_links_any_host(soup, base) ==
    SelectSeq(Map(LAMBDA href : urljoin(base, href), soup.links),
              LAMBDA full_url : full_url.scheme \in {"http", "https"})

\* extract_links: the hrefs joined to base, http(s) and of base's netloc
extract_links(soup, base) ==
    SelectSeq(Map(LAMBDA href : urljoin(base, href), soup.links),
              LAMBDA full_url : /\ full_url.scheme \in {"http", "https"}
                                /\ full_url.netloc = base.netloc)

\* NewTargets with depth <= self.max_depth for depth < self.max_depth
NewTargetsThroughMaxDepth(url, depth) ==
    IF depth <= max_depth
    THEN Map(LAMBDA link : [url |-> link, depth |-> depth + 1],
             SelectSeq(SelectSeq(Map(LAMBDA href : urljoin(url, href),
                                     Doc(url).links),
                                 LAMBDA u : /\ u.scheme \in {"http", "https"}
                                            /\ u.netloc = url.netloc),
                       LAMBDA link : link \notin visited_urls))
    ELSE <<>>

\* NewTargets with the test link not in self.visited_urls missing
NewTargetsUnfiltered(url, depth) ==
    IF depth < max_depth
    THEN Map(LAMBDA link : [url |-> link, depth |-> depth + 1],
             extract_links(Doc(url), url))
    ELSE <<>>

\* the entries crawl() appends for the page url at depth
NewTargets(url, depth) ==
    IF depth < max_depth
    THEN Map(LAMBDA link : [url |-> link, depth |-> depth + 1],
             SelectSeq(extract_links(Doc(url), url),
                       LAMBDA link : link \notin visited_urls))
    ELSE <<>>

\* Collect with the links put at the head of the queue
CollectAtHead ==
    /\ pc = "images"
    /\ \A i \in DOMAIN workers : workers[i].pc = "done"
    /\ stats' = [stats EXCEPT !.images_downloaded = @ + CountTrue(workers)]
    /\ queue' = NewTargets(cur.url, cur.depth) \o queue
    /\ appended' = NewTargets(cur.url, cur.depth)
    /\ workers' = <<>>
    /\ pc' = "sleep"
    /\ UNCHANGED <<site, max_pages, max_depth, cur, visited_urls,
                   image_hashes, images, texts, now, ticks, gets, failed,
                   persisted, faults, exit_code, succeeded, successes,
                   summary, interrupted>>

\* every future is done: extract_images returns the count, crawl() adds it
\* and appends the links
Collect ==
    /\ pc = "images"
    /\ \A i \in DOMAIN workers : workers[i].pc = "done"
    /\ stats' = [stats EXCEPT !.images_downloaded = @ + CountTrue(workers)]
    /\ queue' = queue \o NewTargets(cur.url, cur.depth)
    /\ appended' = NewTargets(cur.url, cur.depth)
    /\ workers' = <<>>
    /\ pc' = "sleep"
    /\ UNCHANGED <<site, max_pages, max_depth, cur, visited_urls,
                   image_hashes, images, texts, now, ticks, gets, failed,
                   persisted, faults, exit_code, succeeded, successes,
                   summary, interrupted>>

\* time.sleep(1)
Sleep ==
    /\ pc = "sleep"
    /\ now' = now + 1
    /\ cur' = NoTarget
    /\ appended' = <<>>
    /\ pc' = "loop"
    /\ UNCHANGED <<site, max_pages, max_depth, queue, visited_urls,
                   image_hashes, stats, workers, images, texts, ticks, gets,
                   failed, persisted, faults, exit_code, succeeded,
                   successes, summary, interrupted>>

-----------------------------------------------------------------------------
(* main() and the handlers under __main__ *)

\* crawl() returned: main() logs the statistics and the process ends
Report ==
    /\ pc = "returned"
    /\ exit_code' = 0
    /\ summary' = TRUE
    /\ pc' = "exited"
    /\ UNCHANGED <<appended, site, max_pages, max_depth, queue, cur,
                   visited_urls, image_hashes, stats, workers, images, texts,
                   now, ticks, gets, failed, persisted, faults, succeeded,
                   successes, interrupted>>

\* except Exception: sys.exit(1)
Abort ==
    /\ pc = "raised"
    /\ exit_code' = 1
    /\ pc' = "exited"
    /\ UNCHANGED <<appended, site, max_pages, max_depth, queue, cur,
                   visited_urls, image_hashes, stats, workers, images, texts,
                   now, ticks, gets, failed, persisted, faults, succeeded,
                   successes, summary, interrupted>>

\* KeyboardInterrupt in the main thread while crawl() runs: it leaves
\* crawl() and main(); the downloads already submitted go on
Interrupt ==
    /\ pc \in {"loop", "get", "text", "images", "sleep"}
    /\ interrupted' = TRUE
    /\ pc' = "interrupted"
    /\ UNCHANGED <<appended, site, max_pages, max_depth, queue, cur,
                   visited_urls, image_hashes, stats, workers, images, texts,
                   now, ticks, gets, failed, persisted, faults, exit_code,
                   succeeded, successes, summary>>

\* the executor has joined its threads; except KeyboardInterrupt logs the
\* interrupt and the process ends
InterruptExit ==
    /\ pc = "interrupted"
    /\ \A i \in DOMAIN workers : workers[i].pc = "done"
    /\ exit_code' = 0
    /\ pc' = "exited"
    /\ UNCHANGED <<appended, site, max_pages, max_depth, queue, cur,
                   visited_urls, image_hashes, stats, workers, images, texts,
                   now, ticks, gets, failed, persisted, faults, succeeded,
                   successes, summary, interrupted>>

MainStep ==
    \/ SetupStorage
    \/ SetupStorageFails
    \/ LoopExit
    \/ DequeueVisited
    \/ DequeueRefused
    \/ DequeueFetch
    \/ PageFetchFails
    \/ PageParseFails
    \/ PageFetched
    \/ ExtractText
    \/ ExtractTextFails
    \/ Collect
    \/ Sleep
    \/ Report
    \/ Abort

WorkerStep ==
    \/ StartImage
    \/ ImageFetchFails
    \/ ImageNotImage
    \/ ImageFetched
    \/ ImageDuplicate
    \/ ImageNew
    \/ ImageAdd
    \/ ImageWritten
    \/ ImageWriteFails

Next ==
    \/ MainStep
    \/ WorkerStep
    \/ Tick

Spec == Init /\ [][Next]_vars

\* a run that the user may interrupt
NextI ==
    \/ Next
    \/ Interrupt
    \/ InterruptExit

SpecI == Init /\ [][NextI]_vars

\* the main thread and every worker thread keep running
FairSpec ==
    /\ Spec
    /\ WF_vars(MainStep)
    /\ WF_vars(WorkerStep)


-----------------------------------------------------------------------------
(* The claims *)

FetchedUrls == {gets[i].url : i \in DOMAIN gets}

\* C1: for every URL at most one page GET is issued in a run, also when the
\* GET fails and the URL is linked several times.
C1_AtMostOneFetchPerUrl ==
    \A i, j \in DOMAIN gets : gets[i].url = gets[j].url => i = j

\* C2: with max_pages >= 0, the number of distinct URLs for which a page GET
\* is issued never exceeds max_pages.
C2_FetchedWithinMaxPages ==
    max_pages >= 0 => Cardinality(FetchedUrls) <= max_pages

\* C3: for every content hash at most one image file with that content is
\* persisted, under every interleaving of the workers of a page.
C3_OneFilePerHash ==
    \A f, g \in images :
        get_image_hash(f.data) = get_image_hash(g.data) => f = g

\* the parts of C4 that hold as claimed: a GET is issued only for an entry
\* of depth <= max_depth, and a page of depth max_depth appends nothing
C4_FetchAndLeaf ==
    /\ \A i \in DOMAIN gets : gets[i].depth <= max_depth
    /\ pc = "sleep" /\ cur.depth = max_depth => appended = <<>>

\* C4 as claimed: every fetched URL was dequeued with depth <= max_depth,
\* every entry of the frontier has depth <= max_depth, and a page dequeued
\* at depth max_depth appends nothing.
C4_DepthBoundClaimed ==
    /\ C4_FetchAndLeaf
    /\ \A i \in DOMAIN queue : queue[i].depth <= max_depth

\* C4 amended: as claimed, but the seed entry (base_url, 0) is in the
\* frontier also when max_depth < 0 (it is then dequeued without a GET);
\* every other entry has depth <= max_depth.
C4_DepthBound ==
    /\ C4_FetchAndLeaf
    /\ \A i \in DOMAIN queue :
           \/ queue[i].depth <= max_depth
           \/ max_depth < 0 /\ queue[i] = [url |-> base_url, depth |-> 0]

\* a page of depth max_depth that has links to unvisited pages was processed
C4_Witness ==
    /\ pc = "sleep"
    /\ cur.depth = max_depth
    /\ \E l \in Range(extract_links(Doc(cur.url), cur.url)) :
           l \notin visited_urls

\* C5: every URL in the frontier, and every URL a page GET is issued for,
\* has the netloc of the seed URL.
C5_SeedAuthorityOnly ==
    /\ \A i \in DOMAIN queue : queue[i].url.netloc = base_url.netloc
    /\ \A u \in FetchedUrls : u.netloc = base_url.netloc

\* a page below the seed that links to another host has appended its links
C5_Witness ==
    /\ pc = "sleep"
    /\ cur.depth > 0
    /\ appended # <<>>
    /\ \E i \in DOMAIN Doc(cur.url).links :
           urljoin(cur.url, Doc(cur.url).links[i]).netloc # base_url.netloc

\* C6: once crawl() runs, it eventually returns the stats.
C6_CrawlReturns == (pc = "loop") ~> (pc = "returned")

\* Supporting fact for C6: crawl() always stops, by returning or by raising.
CrawlStops == (pc = "loop") ~> (pc \in {"returned", "raised"})

\* C7: when the GET of the seed fails, crawl() returns without raising, with
\* pages_crawled = 0, texts_saved = 0, images_downloaded = 0 and errors = 1,
\* and the process exits with code 0.
C7_SeedFailure ==
    base_url \in failed /\ max_pages >= 1 /\ max_depth >= 0 =>
        /\ pc \in {"loop", "returned", "exited"}
        /\ pc \in {"returned", "exited"} =>
               stats = [ZeroStats EXCEPT !.errors = 1]
        /\ pc = "exited" => exit_code = 0

C7_Witness ==
    /\ base_url \in failed
    /\ max_pages >= 1
    /\ max_depth >= 0
    /\ pc = "exited"

\* C8: no failure on a per-page or per-image path ends the run: an exception
\* leaves crawl() only when storage setup failed, before any page GET.
C8_OnlySetupIsFatal == pc = "raised" => gets = <<>>

\* C9: image dedup holds across pages: content persisted while one page was
\* processed is never persisted again for a later page, its file stays, and
\* a download of it for a later page passes no duplicate check and does not
\* return True.
C9_DedupAcrossPages ==
    /\ \A e1, e2 \in persisted : e1.data = e2.data => e1.page = e2.page
    /\ \A e \in persisted : \E f \in images : f.name = e.name /\ f.data = e.data
    /\ \A i \in DOMAIN workers :
           (workers[i].pc \in {"add", "write"} \/ workers[i].result) =>
               \A e \in persisted :
                   e.data = ImageResponse(workers[i].url).body =>
                       e.page = cur.url

\* with no failure in the run, a worker of a later page has finished the
\* download of content that the seed page persisted
C9_Witness ==
    /\ ~faults
    /\ pc = "images"
    /\ cur.url # base_url
    /\ \E i \in DOMAIN workers :
           /\ workers[i].pc = "done"
           /\ ~workers[i].result
           /\ \E e \in persisted :
                  /\ e.page = base_url
                  /\ e.data = ImageResponse(workers[i].url).body

\* C10: the end-to-end scenario (site 1, max_pages = 5, max_depth = 1, no
\* failure): exactly the seed and /p1 are fetched, one image file is
\* persisted, images_downloaded = 1 and errors = 0.
C10_Scenario ==
    site = 1 /\ max_pages = 5 /\ max_depth = 1 /\ ~faults /\ pc = "exited" =>
        /\ FetchedUrls = {base_url, P1}
        /\ Len(gets) = 2
        /\ Cardinality(images) = 1
        /\ stats.images_downloaded = 1
        /\ stats.errors = 0


\* C11: a run that completes crawl() or is ended by a user interrupt has
\* emitted the summary when the process ends, and exits with code 0; a run
\* ended by an unhandled exception exits with code 1.
C11_SummaryAtExit ==
    pc = "exited" =>
        /\ exit_code = 0 => summary
        /\ interrupted => exit_code = 0
        /\ ~interrupted /\ ~summary => exit_code = 1

\* the image GETs in flight
InFlight == {i \in DOMAIN workers : workers[i].pc = "get"}

\* C12: at most 5 image GETs are in flight, all for images of the page being
\* processed, and none while a page GET is in flight; while a worker of the
\* page has not completed, the main thread neither dequeues nor enqueues (it
\* is in extract_images, or was interrupted there).
C12_BoundedFetchesAndBarrier ==
    /\ Cardinality(InFlight) <= 5
    /\ pc = "get" => workers = <<>>
    /\ (\E i \in DOMAIN workers : workers[i].pc # "done") =>
           pc \in {"images", "interrupted"}
    /\ \A i \in DOMAIN workers :
           \E src \in Range(Doc(cur.url).imgs) :
               workers[i].url = urljoin(cur.url, src)

\* five image GETs are in flight and a sixth download waits for a thread
C12_Witness ==
    /\ Cardinality(InFlight) = 5
    /\ \E i \in DOMAIN workers : workers[i].pc = "queued"

\* C13: between any two successive page GETs the pause is applied exactly
\* once, whether the first of them succeeded or failed.
C13_PauseBetweenFetches ==
    \A i \in 1..(Len(gets) - 1) : gets[i + 1].pauses = gets[i].pauses + 1

\* C14: every hash in image_hashes is the content hash of an image file
\* that was persisted; stated for the states where no worker is between
\* adding its hash and writing its file, so that a violation is a hash left
\* behind by a write that failed.
C14_HashesArePersisted ==
    (\A i \in DOMAIN workers : workers[i].pc # "write") =>
        \A h \in image_hashes :
            \E f \in images : get_image_hash(f.data) = h

\* C15: whenever the main loop is at the top of an iteration or crawl() has
\* returned, texts_saved = pages_crawled, and both count the pages whose
\* text file was written; a failed fetch counts in neither.
C15_TextsEqualPages ==
    pc \in {"loop", "returned"} =>
        /\ stats.texts_saved = stats.pages_crawled
        /\ stats.pages_crawled = Cardinality(texts)
        /\ stats.pages_crawled + stats.errors <= Len(gets) + 1

\* two pages were processed and the GET of another failed
C15_Witness ==
    /\ pc = "loop"
    /\ stats.pages_crawled >= 2
    /\ failed # {}

\* the calls of the current page that have returned True
ReturnedTrue == Cardinality({i \in DOMAIN workers : workers[i].result})

\* C16: no step of download_image changes stats or visited_urls; a call
\* returns True only by writing its file, so a failed fetch, a content type
\* that is no image, a duplicate and a failed write add 0 to
\* images_downloaded; errors changes only when download_page returns no
\* document, and then by 1 with the other statistics unchanged.
C16_ImagesLeaveErrors ==
    [][ /\ (workers' # workers /\ pc' = pc) =>
               stats' = stats /\ visited_urls' = visited_urls
        /\ \A i \in DOMAIN workers \cap DOMAIN workers' :
               (workers[i].pc # "done" /\ workers'[i].pc = "done"
                    /\ workers'[i].result) =>
                   /\ workers[i].pc = "write"
                   /\ ImageResponse(workers[i].url).type = "image"
                   /\ successes' = successes + 1
        /\ stats'.images_downloaded # stats.images_downloaded =>
               /\ pc = "images" /\ pc' = "sleep"
               /\ stats'.images_downloaded =
                      stats.images_downloaded + ReturnedTrue
        /\ stats'.errors # stats.errors =>
               /\ pc \in {"loop", "get"} /\ pc' = "loop"
               /\ stats' = [stats EXCEPT !.errors = @ + 1]
               /\ workers = <<>>
      ]_vars

\* a download of the page has failed and errors is still 0
C16_Witness ==
    /\ pc = "images"
    /\ faults
    /\ stats.errors = 0
    /\ \E i \in DOMAIN workers : workers[i].pc = "done" /\ ~workers[i].result

\* the links of the current page, joined to its URL, in document order
Joined == [i \in DOMAIN Doc(cur.url).links |->
               urljoin(cur.url, Doc(cur.url).links[i])]

\* the positions of the same-origin links that are not in visited_urls
Wanted ==
    {i \in DOMAIN Joined : /\ Joined[i].scheme \in {"http", "https"}
                           /\ Joined[i].netloc = base_url.netloc
                           /\ Joined[i] \notin visited_urls}

\* the k-th position of Wanted
Kth(k) == CHOOSE i \in Wanted : Cardinality({j \in Wanted : j <= i}) = k

\* what the page just processed has appended
C17_Appended ==
    pc = "sleep" =>
        IF cur.depth < max_depth
        THEN /\ Len(appended) = Cardinality(Wanted)
             /\ \A k \in DOMAIN appended :
                    appended[k] = [url |-> Joined[Kth(k)],
                                   depth |-> cur.depth + 1]
        ELSE appended = <<>>

\* C17: a page dequeued at depth d < max_depth and processed successfully
\* appends exactly its same-origin links that are not in visited_urls, in
\* document order, at the tail of the frontier with depth d + 1; a dequeued
\* URL that is in visited_urls is dropped with no GET and no change of stats.
C17_EnqueueAndDiscard ==
    /\ []C17_Appended
    /\ [][ /\ (pc = "images" /\ pc' = "sleep") => queue' = queue \o appended'
           /\ (pc = "loop" /\ queue' # queue
                   /\ Head(queue).url \in visited_urls) =>
                  /\ queue' = Tail(queue)
                  /\ pc' = "loop"
                  /\ stats' = stats
                  /\ gets' = gets
         ]_vars

\* a page has appended some of its links and left out a visited one
C17_Witness ==
    /\ pc = "sleep"
    /\ cur.depth < max_depth
    /\ appended # <<>>
    /\ \E i \in DOMAIN Joined : Joined[i] \in visited_urls

\* C18: no update of the image count is lost or doubled: while the images
\* of a page are downloaded, the calls of the page that returned True are
\* the calls that returned True in the run less images_downloaded; once
\* extract_images has returned, and when crawl() has returned,
\* images_downloaded is the number of calls that returned True in the run.
C18_ImageCount ==
    /\ pc = "images" =>
           stats.images_downloaded + ReturnedTrue = successes
    /\ (pc \in {"loop", "get", "text", "sleep", "returned"}
            \/ (pc = "exited" /\ summary)) =>
           stats.images_downloaded = successes

\* two downloads of one page have returned True and were counted
C18_Witness ==
    /\ pc = "sleep"
    /\ stats.images_downloaded = successes
    /\ \E e1, e2 \in persisted : e1.page = cur.url /\ e2.page = cur.url
                                 /\ e1.name # e2.name

\* C19: the traversal is breadth-first: the depths of the frontier entries
\* do not decrease from head to tail and differ by at most 1, the depths of
\* the pages fetched do not decrease, and no page is fetched while the
\* frontier holds an entry of a smaller depth.
C19_BreadthFirst ==
    /\ \A i, j \in DOMAIN queue : i < j => queue[i].depth <= queue[j].depth
    /\ queue # <<>> => queue[Len(queue)].depth - queue[1].depth <= 1
    /\ \A i, j \in DOMAIN gets : i < j => gets[i].depth <= gets[j].depth
    /\ pc = "get" => \A i \in DOMAIN queue : queue[i].depth >= cur.depth

\* a page below the seed has appended its links behind entries of its own
\* depth
C19_Witness ==
    /\ pc = "sleep"
    /\ cur.depth > 0
    /\ \E i, j \in DOMAIN queue :
           queue[i].depth = cur.depth /\ queue[j].depth = cur.depth + 1

\* C20: with max_pages >= 0, pages_crawled <= |visited_urls| <= max_pages,
\* a URL is in visited_urls only if a GET of it returned a success status,
\* no page GET is in flight once |visited_urls| = max_pages, and with
\* max_pages = 0 no GET is issued and the four statistics are 0.
C20_VisitedWithinMaxPages ==
    max_pages >= 0 =>
        /\ stats.pages_crawled <= Cardinality(visited_urls)
        /\ Cardinality(visited_urls) <= max_pages
        /\ visited_urls \subseteq succeeded
        /\ pc = "get" => Cardinality(visited_urls) < max_pages
        /\ max_pages = 0 => gets = <<>> /\ stats = ZeroStats

\* crawl() has returned at the cap with entries left in the frontier
C20_Witness ==
    /\ pc = "returned"
    /\ max_pages >= 2
    /\ Cardinality(visited_urls) = max_pages
    /\ queue # <<>>

=============================================================================
